---- MODULE Spec2Model ----
(***************************************************************************)
(* Model of server.js: an Express application that relays JSON requests    *)
(* to an SMTP transport (nodemailer).                                       *)
(*                                                                          *)
(* State: the module-level `transporter` handle, the progress of the       *)
(* asynchronous transporter.verify callback, and one slot per HTTP request *)
(* the server sees.  An async handler runs synchronously up to its first   *)
(* await, so each handler is one action per synchronous segment.           *)
(*                                                                          *)
(* req.body is taken as express.json() leaves it for a JSON object body;   *)
(* a body the parser rejects goes to the error middleware (ErrorRequest).  *)
(***************************************************************************)
EXTENDS Integers, Sequences, FiniteSets

VARIABLES phase, transporter, verifyState, reqs

vars == <<phase, transporter, verifyState, reqs>>

\* Number of HTTP requests (loopback requests included) the server sees.
MaxReqs == 2

ReqIds == 1..MaxReqs

\* ------------------------------------------------------------------------
\* JavaScript values of a parsed JSON body.  v is the value's String()
\* conversion, as a sequence of characters.
\* ------------------------------------------------------------------------
Undef == [t |-> "undefined", v |-> <<"u","n","d","e","f","i","n","e","d">>]
Null == [t |-> "null", v |-> <<"n","u","l","l">>]

Str(s) == [t |-> "string", v |-> s]

Num(digits) == [t |-> "number", v |-> digits]

\* JavaScript truthiness, the sense of `!x` and `x || y`.
Truthy(x) ==
  CASE x.t = "undefined" -> FALSE
    [] x.t = "null" -> FALSE
    [] x.t = "string" -> x.v # <<>>
    [] x.t = "number" -> x.v # <<"0">>

\* RegExp.prototype.test converts its argument with String().
StringOf(x) == x.v

\* \s of the regular expression.
IsSpace(c) == c \in {" ", "\t", "\n"}

\* The character class [^\s@].
Plain(c) == ~IsSpace(c) /\ c # "@"

\* s[a..b] is non-empty and every character is in [^\s@].
PlainRun(s, a, b) == a <= b /\ \A k \in a..b : Plain(s[k])

\* /^[^\s@]+@[^\s@]+\.[^\s@]+$/.test(s)
EmailRegexTest(s) ==
  \E i \in 1..Len(s) : \E j \in 1..Len(s) :
    /\ s[i] = "@"
    /\ s[j] = "."
    /\ PlainRun(s, 1, i - 1)
    /\ PlainRun(s, i + 1, j - 1)
    /\ PlainRun(s, j + 1, Len(s))

\* ------------------------------------------------------------------------
\* Request bodies
\* ------------------------------------------------------------------------
GoodTo == Str(<<"a","@","b",".","c">>)
GoodSubject == Str(<<"H","i">>)
GoodHtml == Str(<<"<","p",">">>)

Tos ==
  { GoodTo,
    Str(<<"a","@","b",".","c",".","d">>),
    Str(<<"a","b",".","c">>),
    Str(<<"a","@","b","c">>),
    Str(<<"a","@","@","b",".","c">>),
    Str(<<"a"," ","@","b",".","c">>),
    Str(<<"a","@","b",".","c","\n">>),
    Str(<<"@","b",".","c">>),
    Str(<<"a","@",".","c">>),
    Str(<<"a","@","b",".">>),
    Str(<<>>), Num(<<"7">>), Num(<<"0">>), Null, Undef }

MkBody(from, to, subject, html, text, testEmail) ==
  [from |-> from, to |-> to, subject |-> subject, html |-> html,
   text |-> text, testEmail |-> testEmail]

NoBody == MkBody(Undef, Undef, Undef, Undef, Undef, Undef)

\* Bodies posted to /api/send-email: every `to` of Tos with the other fields
\* good, each other field missing or empty in turn, and the optional fields.
SendBodies ==
  { MkBody(Undef, to, GoodSubject, GoodHtml, Undef, Undef) : to \in Tos }
  \cup { MkBody(Undef, GoodTo, s, GoodHtml, Undef, Undef) : s \in {Str(<<>>), Undef} }
  \cup { MkBody(Undef, GoodTo, GoodSubject, h, Undef, Undef) : h \in {Str(<<>>), Null, Undef} }
  \cup { MkBody(Str(<<"m","e">>), GoodTo, GoodSubject, GoodHtml, Str(<<"t">>), Undef),
         MkBody(Undef, GoodTo, GoodSubject, GoodHtml, Str(<<>>), Undef),
         MkBody(Undef, Str(<<"a","b",".","c">>), Undef, Undef, Undef, Undef),
         NoBody }

\* Bodies posted to /api/test-email.
TestBodies ==
  { MkBody(Undef, Undef, Undef, Undef, Undef, e) :
      e \in { GoodTo, Str(<<"a","b",".","c">>), Num(<<"7">>), Str(<<>>), Undef } }

\* ------------------------------------------------------------------------
\* Responses
\* ------------------------------------------------------------------------
ABSENT == "<absent>"

\* A JSON response body; a key the body does not carry is ABSENT.
EmptyBody ==
  [error |-> ABSENT, details |-> ABSENT, code |-> ABSENT, success |-> ABSENT,
   messageId |-> ABSENT, response |-> ABSENT, status |-> ABSENT,
   timestamp |-> ABSENT, path |-> ABSENT]

NoResp == [status |-> 0, body |-> EmptyBody]

\* Truthiness of a string-valued key that may be missing.
Present(s) == s # ABSENT /\ s # ""

\* ------------------------------------------------------------------------
\* Transport outcomes
\* ------------------------------------------------------------------------
NoOutcome ==
  [settled |-> FALSE, ok |-> FALSE, messageId |-> ABSENT, response |-> ABSENT,
   message |-> ABSENT, code |-> ABSENT]

\* What sendMail resolves with.
Results ==
  { [settled |-> TRUE, ok |-> TRUE, messageId |-> m, response |-> "250 OK",
     message |-> ABSENT, code |-> ABSENT] : m \in {"abc123", "def456"} }

\* What sendMail rejects with: an Error with a message and an optional code.
Errors ==
  { [settled |-> TRUE, ok |-> FALSE, messageId |-> ABSENT, response |-> ABSENT,
     message |-> "Connection refused", code |-> c] : c \in {ABSENT, "", "EAUTH"} }

\* ------------------------------------------------------------------------
\* Request slots
\* ------------------------------------------------------------------------
NULL == "null"
HANDLE == "transport"

IdleSlot ==
  [kind |-> "none", pc |-> "idle", body |-> NoBody, parent |-> 0,
   calls |-> <<>>, fetches |-> 0, out |-> NoOutcome, resp |-> NoResp, nresp |-> 0]

\* res.status(status).json(body): the response is recorded and counted.
Respond(slot, status, body) ==
  [slot EXCEPT !.resp = [status |-> status, body |-> body], !.nresp = @ + 1,
               !.pc = "done"]

\* Slot r is the next one a new request takes.
Free(r) == reqs[r].pc = "idle" /\ \A q \in ReqIds : q < r => reqs[q].pc # "idle"

\* ------------------------------------------------------------------------
\* POST /api/send-email
\* ------------------------------------------------------------------------
\* NotReady without the readiness check.
NotReadyNever(t) == FALSE

\* `!transporter`
NotReady(t) == t = NULL

\* MissingFields without the check of html.
MissingFieldsNoHtml(body) == ~Truthy(body.to) \/ ~Truthy(body.subject)

\* `!to || !subject || !html`
MissingFields(body) ==
  ~Truthy(body.to) \/ ~Truthy(body.subject) \/ ~Truthy(body.html)

\* InvalidFormat without the regular expression.
InvalidFormatNone(body) == FALSE

\* `!emailRegex.test(to)`
InvalidFormat(body) == ~EmailRegexTest(StringOf(body.to))

\* The default sender, built from the environment or the literals.
DefaultFrom == Str(<<"E","M","P">>)

\* The message handed to transporter.sendMail.
MailOptions(body) ==
  [from |-> IF Truthy(body.from) THEN body.from ELSE DefaultFrom,
   to |-> body.to,
   subject |-> body.subject,
   html |-> body.html,
   text |-> IF Truthy(body.text) THEN body.text ELSE Null]

\* The handler from its entry to the await of sendMail.
SendEmailEntry(t, slot) ==
  IF NotReady(t)
    THEN Respond(slot, 503, [EmptyBody EXCEPT
           !.error = "Email service unavailable - transporter not initialized"])
  ELSE IF MissingFields(slot.body)
    THEN Respond(slot, 400, [EmptyBody EXCEPT
           !.error = "Missing required fields: to, subject, and html are required"])
  ELSE IF InvalidFormat(slot.body)
    THEN Respond(slot, 400, [EmptyBody EXCEPT !.error = "Invalid email address format"])
  ELSE [slot EXCEPT !.calls = Append(@, MailOptions(slot.body)), !.pc = "sending"]

\* SuccessBody with the two transport values exchanged.
SuccessBodySwapped(result) ==
  [EmptyBody EXCEPT !.success = "true", !.messageId = result.response,
                    !.response = result.messageId]

\* Body of the 200 response.
SuccessBody(result) ==
  [EmptyBody EXCEPT !.success = "true", !.messageId = result.messageId,
                    !.response = result.response]

\* ErrorCode that ignores the transport's code.
ErrorCodeDefault(err) == "EMAIL_SEND_ERROR"

\* `error.code || 'EMAIL_SEND_ERROR'`
ErrorCode(err) == IF Present(err.code) THEN err.code ELSE "EMAIL_SEND_ERROR"

\* Body of the 500 response of the catch block.
FailureBody(err) ==
  [EmptyBody EXCEPT !.error = "Failed to send email", !.details = err.message,
                    !.code = ErrorCode(err)]

\* The handler after sendMail resolved.
OnResolve(slot, result) == Respond([slot EXCEPT !.out = result], 200, SuccessBody(result))

\* OnReject that calls sendMail again instead of answering.
OnRejectRetry(slot, err) ==
  [slot EXCEPT !.out = err, !.calls = Append(@, MailOptions(slot.body))]

\* OnReject that swallows the error without answering.
OnRejectSilent(slot, err) == [slot EXCEPT !.out = err, !.pc = "done"]

\* The handler after sendMail rejected: the catch block.
OnReject(slot, err) == Respond([slot EXCEPT !.out = err], 500, FailureBody(err))

\* ------------------------------------------------------------------------
\* POST /api/test-email
\* ------------------------------------------------------------------------
TestSubject == Str(<<"T","e","s","t">>)
TestHtml == Str(<<"<","h","t","m","l",">">>)

\* emailData, as JSON.stringify and express.json carry it to /api/send-email.
EmailData(body) == MkBody(Undef, body.testEmail, TestSubject, TestHtml, Undef, Undef)

\* The handler from its entry to the await of fetch.
TestEmailEntry(slot) ==
  IF ~Truthy(slot.body.testEmail)
    THEN Respond(slot, 400, [EmptyBody EXCEPT !.error = "testEmail is required"])
  ELSE [slot EXCEPT !.fetches = @ + 1, !.pc = "fetching"]

\* Body of the 500 response of the catch block.
TestFailureBody(message) ==
  [EmptyBody EXCEPT !.error = "Failed to send test email", !.details = message]

\* response.ok
ResponseOk(resp) == resp.status \in 200..299

\* TestEmailReply that passes the loopback response through unchanged.
TestEmailReplySame(inner) == inner

\* What the handler answers once the loopback response `inner` is read.
TestEmailReply(inner) ==
  IF ~ResponseOk(inner)
    THEN [status |-> 500,
          body |-> TestFailureBody(IF Present(inner.body.error)
                                     THEN inner.body.error
                                     ELSE "Failed to send test email")]
  ELSE [status |-> 200, body |-> inner.body]

\* ------------------------------------------------------------------------
\* The other routes
\* ------------------------------------------------------------------------
HealthReply ==
  [status |-> 200, body |-> [EmptyBody EXCEPT !.status = "OK", !.timestamp = "now"]]

EmailStatusReply(t) ==
  IF NotReady(t)
    THEN [status |-> 503,
          body |-> [EmptyBody EXCEPT !.status = "unavailable",
                                     !.error = "Email transporter not initialized"]]
  ELSE [status |-> 200,
        body |-> [EmptyBody EXCEPT !.status = "available", !.timestamp = "now"]]

NotFoundReply(path) ==
  [status |-> 404, body |-> [EmptyBody EXCEPT !.error = "Endpoint not found", !.path = path]]

ErrorReply(message) ==
  [status |-> 500,
   body |-> [EmptyBody EXCEPT !.error = "Internal server error", !.details = message]]

\* TransporterAfterVerify that drops the handle when verification failed.
TransporterAfterVerifyReset(t, outcome) == IF outcome = "failed" THEN NULL ELSE t

\* The handle after the verify callback ran: the callback only logs.
TransporterAfterVerify(t, outcome) == t

\* ------------------------------------------------------------------------
\* The state machine
\* ------------------------------------------------------------------------
Init ==
  /\ phase = "load"
  /\ transporter = NULL
  /\ verifyState = "none"
  /\ reqs = [r \in ReqIds |-> IdleSlot]

\* createTransport returns: the handle is assigned and verify is started.
\* createTransport throws: the error is rethrown and the module load fails.
InitializeTransporter ==
  /\ phase = "load"
  /\ \/ /\ transporter' = HANDLE
        /\ verifyState' = "pending"
        /\ phase' = "initialized"
     \/ /\ phase' = "crashed"
        /\ UNCHANGED <<transporter, verifyState>>
  /\ UNCHANGED reqs

\* app.listen, at the end of the module body.
Listen ==
  /\ phase = "initialized"
  /\ phase' = "serving"
  /\ UNCHANGED <<transporter, verifyState, reqs>>

\* VerifyCallback that ends the process when verification failed.
VerifyCallbackExit ==
  /\ phase = "serving"
  /\ verifyState = "pending"
  /\ \E outcome \in {"ok", "failed"} :
       /\ verifyState' = outcome
       /\ phase' = IF outcome = "failed" THEN "crashed" ELSE phase
  /\ UNCHANGED <<transporter, reqs>>

\* The callback of transporter.verify, run from the event loop.
VerifyCallback ==
  /\ phase = "serving"
  /\ verifyState = "pending"
  /\ \E outcome \in {"ok", "failed"} :
       /\ verifyState' = outcome
       /\ transporter' = TransporterAfterVerify(transporter, outcome)
  /\ UNCHANGED <<phase, reqs>>

\* A request answered within its handler, with `reply`.
Answer(r, kind, reply) ==
  /\ phase = "serving"
  /\ Free(r)
  /\ reqs' = [reqs EXCEPT ![r] =
                Respond([IdleSlot EXCEPT !.kind = kind], reply.status, reply.body)]
  /\ UNCHANGED <<phase, transporter, verifyState>>

GetHealth(r) == Answer(r, "health", HealthReply)

GetEmailStatus(r) == Answer(r, "status", EmailStatusReply(transporter))

NotFound(r) == Answer(r, "notfound", NotFoundReply("/api/unknown"))

\* A POST whose body express.json() rejects: the error middleware answers.
ErrorRequest(r) == Answer(r, "error", ErrorReply("Unexpected token"))

PostSendEmail(r) ==
  /\ phase = "serving"
  /\ Free(r)
  /\ \E body \in SendBodies :
       reqs' = [reqs EXCEPT ![r] =
                  SendEmailEntry(transporter, [IdleSlot EXCEPT !.kind = "send", !.body = body])]
  /\ UNCHANGED <<phase, transporter, verifyState>>

\* The loopback request of fetch takes the slot after its caller's.
PostTestEmail(r) ==
  /\ phase = "serving"
  /\ Free(r)
  /\ \E body \in TestBodies :
       LET entry == TestEmailEntry([IdleSlot EXCEPT !.kind = "test", !.body = body])
       IN /\ entry.pc = "fetching" => r + 1 \in ReqIds
          /\ reqs' = [q \in ReqIds |->
                        IF q = r THEN entry
                        ELSE IF q = r + 1 /\ entry.pc = "fetching"
                          THEN [IdleSlot EXCEPT !.kind = "send", !.pc = "inflight",
                                                !.body = EmailData(body), !.parent = r]
                        ELSE reqs[q]]
  /\ UNCHANGED <<phase, transporter, verifyState>>

\* The loopback request reaches the /api/send-email handler.
LoopbackArrive(c) ==
  /\ reqs[c].pc = "inflight"
  /\ reqs' = [reqs EXCEPT ![c] = SendEmailEntry(transporter, @)]
  /\ UNCHANGED <<phase, transporter, verifyState>>

\* fetch rejects (no connection): the catch block of the caller answers.
FetchFail(c) ==
  /\ reqs[c].pc = "inflight"
  /\ reqs' = [reqs EXCEPT ![c].pc = "lost",
                          ![reqs[c].parent] =
                            Respond(@, 500, TestFailureBody("fetch failed"))]
  /\ UNCHANGED <<phase, transporter, verifyState>>

SendMailResolve(r) ==
  /\ reqs[r].pc = "sending"
  /\ \E result \in Results : reqs' = [reqs EXCEPT ![r] = OnResolve(@, result)]
  /\ UNCHANGED <<phase, transporter, verifyState>>

SendMailReject(r) ==
  /\ reqs[r].pc = "sending"
  /\ \E err \in Errors : reqs' = [reqs EXCEPT ![r] = OnReject(@, err)]
  /\ UNCHANGED <<phase, transporter, verifyState>>

\* The loopback response arrived: the caller resumes after `await fetch`.
TestEmailResume(p) ==
  /\ reqs[p].pc = "fetching"
  /\ \E c \in ReqIds :
       /\ reqs[c].parent = p
       /\ reqs[c].pc = "done"
       /\ LET reply == TestEmailReply(reqs[c].resp)
          IN reqs' = [reqs EXCEPT ![p] = Respond(@, reply.status, reply.body)]
  /\ UNCHANGED <<phase, transporter, verifyState>>

Requests ==
  \E r \in ReqIds :
    \/ GetHealth(r)
    \/ GetEmailStatus(r)
    \/ NotFound(r)
    \/ ErrorRequest(r)
    \/ PostSendEmail(r)
    \/ PostTestEmail(r)
    \/ LoopbackArrive(r)
    \/ FetchFail(r)
    \/ TestEmailResume(r)

Next ==
  \/ InitializeTransporter
  \/ Listen
  \/ VerifyCallback
  \/ Requests
  \/ \E r \in ReqIds : SendMailResolve(r) \/ SendMailReject(r)

Spec == Init /\ [][Next]_vars

\* The event loop runs every ready continuation, a fetch connects or fails,
\* and every sendMail call settles.
Fairness ==
  \A r \in ReqIds :
    /\ WF_vars(SendMailResolve(r) \/ SendMailReject(r))
    /\ WF_vars(LoopbackArrive(r) \/ FetchFail(r))
    /\ WF_vars(TestEmailResume(r))

FairSpec == Init /\ [][Next]_vars /\ Fairness

\* The routes run with the handle at its declared value, `let transporter =
\* null`: initialization simulated as failed.
InitUninit ==
  /\ phase = "serving"
  /\ transporter = NULL
  /\ verifyState = "none"
  /\ reqs = [r \in ReqIds |-> IdleSlot]

SpecUninit == InitUninit /\ [][Requests]_vars

\* ------------------------------------------------------------------------
\* Properties
\* ------------------------------------------------------------------------
\* The request of slot r reached its handler.
Handled(r) == reqs[r].pc \in {"sending", "fetching", "done"}

SendHandled(r) == reqs[r].kind = "send" /\ Handled(r)

\* The message's required fields are present and `to` has the address shape.
WellFormed(m) ==
  /\ Truthy(m.to) /\ Truthy(m.subject) /\ Truthy(m.html)
  /\ EmailRegexTest(StringOf(m.to))

\* The loopback request of the /api/test-email request p.
Children(p) == { c \in ReqIds : reqs[c].parent = p }

\* C1: every message handed to sendMail, by a direct request or through
\* /api/test-email, has to, subject and html present and a `to` that matches
\* the address shape.
C1_DeliverOnlyWellFormed ==
  \A r \in ReqIds : \A k \in 1..Len(reqs[r].calls) : WellFormed(reqs[r].calls[k])

\* A message reached sendMail through /api/test-email.
C1_Witness ==
  \E c \in ReqIds :
    /\ reqs[c].parent # 0
    /\ Len(reqs[c].calls) = 1
    /\ reqs[c].calls[1].to = GoodTo

\* C2: with the handle set, a /api/send-email request with a missing field or
\* a malformed `to` is answered 400 with an error, and sendMail is not called.
C2_BadRequestIs400 ==
  \A r \in ReqIds :
    SendHandled(r) /\ transporter # NULL /\ ~WellFormed(reqs[r].body)
      => /\ reqs[r].pc = "done"
         /\ reqs[r].resp.status = 400
         /\ Present(reqs[r].resp.body.error)
         /\ reqs[r].calls = <<>>

\* One request was refused for a missing html, another for a malformed `to`.
C2_Witness ==
  \E r \in ReqIds : \E q \in ReqIds :
    /\ SendHandled(r) /\ Truthy(reqs[r].body.to) /\ Truthy(reqs[r].body.subject)
    /\ ~Truthy(reqs[r].body.html)
    /\ reqs[r].resp.status = 400
    /\ SendHandled(q) /\ ~MissingFields(reqs[q].body)
    /\ reqs[q].resp.status = 400

\* C3: while the handle is unset, /api/email-status answers 503 and
\* /api/send-email answers 503 whatever the body, without calling sendMail.
C3_UnreadyIs503 ==
  transporter = NULL =>
    \A r \in ReqIds :
      /\ reqs[r].kind = "status" => reqs[r].resp.status = 503
      /\ SendHandled(r) =>
           /\ reqs[r].pc = "done"
           /\ reqs[r].resp.status = 503
           /\ reqs[r].calls = <<>>

\* With the handle unset, a body without its fields got 503 and so did
\* /api/email-status.
C3_Witness ==
  /\ transporter = NULL
  /\ \E r \in ReqIds : \E q \in ReqIds :
       /\ SendHandled(r) /\ ~WellFormed(reqs[r].body) /\ reqs[r].resp.status = 503
       /\ reqs[q].kind = "status" /\ reqs[q].resp.status = 503

\* C4: when sendMail rejects, the answer is 500 with error "Failed to send
\* email", the error's message as details, and as code the error's code if
\* it has a non-empty one and "EMAIL_SEND_ERROR" otherwise.
C4_FailureIs500 ==
  \A r \in ReqIds :
    reqs[r].kind = "send" /\ reqs[r].out.settled /\ ~reqs[r].out.ok
      => /\ reqs[r].pc = "done"
         /\ reqs[r].resp.status = 500
         /\ reqs[r].resp.body =
              [EmptyBody EXCEPT
                 !.error = "Failed to send email",
                 !.details = reqs[r].out.message,
                 !.code = IF reqs[r].out.code \in {ABSENT, ""}
                            THEN "EMAIL_SEND_ERROR" ELSE reqs[r].out.code]

\* One delivery failed with a code of the transport, another without a code.
C4_Witness ==
  \E r \in ReqIds : \E q \in ReqIds :
    /\ reqs[r].out.settled /\ reqs[r].out.code = "EAUTH" /\ reqs[r].pc = "done"
    /\ reqs[q].out.settled /\ ~reqs[q].out.ok /\ reqs[q].out.code = ABSENT
    /\ reqs[q].pc = "done"

\* C5: when sendMail resolves, the answer is 200 with success true and the
\* messageId and response of that request's own sendMail call.
C5_SuccessIs200 ==
  \A r \in ReqIds :
    reqs[r].kind = "send" /\ reqs[r].out.settled /\ reqs[r].out.ok
      => /\ reqs[r].pc = "done"
         /\ reqs[r].nresp = 1
         /\ reqs[r].resp.status = 200
         /\ reqs[r].resp.body =
              [EmptyBody EXCEPT !.success = "true",
                                !.messageId = reqs[r].out.messageId,
                                !.response = reqs[r].out.response]

\* Two requests were in flight together; the later one was answered first,
\* with its own messageId.
C5_Witness ==
  /\ reqs[1].kind = "send" /\ reqs[1].pc = "sending"
  /\ reqs[2].kind = "send" /\ reqs[2].pc = "done"
  /\ reqs[2].out.ok /\ reqs[2].resp.body.messageId = "def456"

\* C6 as claimed: /api/test-email answers with the status and body that
\* /api/send-email gave for the message {to: testEmail, subject, html}.
C6_SameAsSendEmail ==
  \A p \in ReqIds : \A c \in Children(p) :
    reqs[p].pc = "done" /\ reqs[c].pc = "done" => reqs[p].resp = reqs[c].resp

\* C6 amended: a 200 of /api/send-email is passed on unchanged; any other
\* status becomes 500 with error "Failed to send test email" and the error
\* text of the /api/send-email answer as details.
C6_WrapsFailures ==
  \A p \in ReqIds : \A c \in Children(p) :
    reqs[p].pc = "done" /\ reqs[c].pc = "done"
      => reqs[p].resp =
           IF reqs[c].resp.status = 200
             THEN reqs[c].resp
             ELSE [status |-> 500,
                   body |-> [EmptyBody EXCEPT
                               !.error = "Failed to send test email",
                               !.details = reqs[c].resp.body.error]]

\* A test request was answered after its loopback request got a delivery
\* failure.
C6_Witness ==
  \E p \in ReqIds : \E c \in Children(p) :
    /\ reqs[p].pc = "done" /\ reqs[c].pc = "done"
    /\ reqs[c].resp.status = 500
    /\ reqs[c].out.code = "EAUTH"

\* C7: no request calls sendMail more than once, a /api/test-email request
\* makes one loopback request at most, and a request whose sendMail call
\* rejected is answered without another call.
C7_NoRetry ==
  \A r \in ReqIds :
    /\ Len(reqs[r].calls) <= 1
    /\ reqs[r].fetches <= 1
    /\ Cardinality(Children(r)) <= 1
    /\ reqs[r].kind = "test" => reqs[r].calls = <<>>
    /\ reqs[r].out.settled /\ ~reqs[r].out.ok
         => reqs[r].pc = "done" /\ Len(reqs[r].calls) = 1

\* A delivery made for a test request failed and the test request was
\* answered.
C7_Witness ==
  \E p \in ReqIds : \E c \in Children(p) :
    /\ reqs[p].pc = "done" /\ reqs[p].resp.status = 500
    /\ reqs[c].out.settled /\ ~reqs[c].out.ok
    /\ Len(reqs[c].calls) = 1

\* C8 as claimed: once verification failed, no request is handed to
\* sendMail.
C8_NoSendAfterVerifyFailed ==
  [][verifyState = "failed"
       => \A r \in ReqIds : Len(reqs'[r].calls) = Len(reqs[r].calls)]_vars

\* C8 amended: a failed verification is only logged: the process keeps
\* serving, the handle stays set, and every /api/send-email request is still
\* validated and, if well formed, handed to sendMail.
C8_VerifyFailureOnlyLogged ==
  verifyState = "failed" =>
    /\ phase = "serving"
    /\ transporter = HANDLE
    /\ \A r \in ReqIds :
         SendHandled(r) =>
           IF WellFormed(reqs[r].body)
             THEN Len(reqs[r].calls) = 1
             ELSE reqs[r].resp.status = 400

\* Verification failed and a request is waiting for sendMail.
C8_Witness ==
  /\ verifyState = "failed"
  /\ \E r \in ReqIds : reqs[r].kind = "send" /\ reqs[r].pc = "sending"

\* C9: the handle changes in one step only, the assignment of
\* initializeTransporter from null; no handler and no callback changes it,
\* and every handled request saw it set.
C9_HandleAssignedOnce ==
  [][/\ transporter' # transporter
          => /\ phase = "load" /\ phase' = "initialized"
             /\ transporter = NULL /\ transporter' = HANDLE
     /\ phase' = "serving" => transporter' = HANDLE]_vars

\* Verification failed, one request was refused and one delivery failed,
\* with the handle still set.
C9_Witness ==
  /\ transporter = HANDLE
  /\ verifyState = "failed"
  /\ \E r \in ReqIds : \E q \in ReqIds :
       /\ reqs[r].resp.status = 400
       /\ reqs[q].resp.status = 500 /\ reqs[q].out.settled

\* C10: a /api/send-email or /api/test-email request that reached its
\* handler is answered, and no request is answered twice.
C10_AnsweredOnce ==
  \A r \in ReqIds :
    /\ [](reqs[r].nresp <= 1 /\ (reqs[r].pc = "done" => reqs[r].nresp = 1))
    /\ [](Handled(r) => <>(reqs[r].pc = "done" /\ reqs[r].nresp = 1))

\* A test request was answered once after its loopback request, itself
\* answered once, got a delivery failure.
C10_Witness ==
  \E p \in ReqIds : \E c \in Children(p) :
    /\ reqs[p].kind = "test" /\ reqs[p].pc = "done" /\ reqs[p].nresp = 1
    /\ reqs[c].pc = "done" /\ reqs[c].nresp = 1
    /\ reqs[c].out.settled /\ ~reqs[c].out.ok /\ reqs[c].out.code = ABSENT
====
